---- MODULE Spec2Model ----
(***************************************************************************)
(* Model of adsb-scraper/scraper.py: the poll loop of main(), the four     *)
(* scrapers' fetch() (URL rotation, status classification, position        *)
(* filter) and KafkaPublisher (connect, publish_batch, close).             *)
(*                                                                         *)
(* One step of the model is one blocking call of the single control        *)
(* thread (a sleep, a fetch, a publish, a connect, a close) together with  *)
(* all the straight-line code that follows it up to the next blocking call.*)
(* A KeyboardInterrupt may arrive during any blocking call.                *)
(***************************************************************************)
EXTENDS Integers, Sequences, FiniteSets, TLC

\* ------------------------------------------------------------------ bounds
MaxFetches == 5        \* fetch calls explored per run
MaxUrls == 2           \* SOURCE_URLS holds 1..MaxUrls URLs
MaxErrorBudget == 3    \* MAX_CONSECUTIVE_ERRORS ranges over 1..MaxErrorBudget
MaxErrbacks == 1       \* on_error callbacks counted per publish_batch call
MaxPollInterval == 310 \* POLL_INTERVAL ranges over 0..MaxPollInterval in SpecBackoff
MaxExponent == 10      \* exponents the backoff formula is evaluated at
MaxClock == 60         \* minutes the token provider's clock runs
MaxTokenCalls == 4     \* get_access_token calls explored per run

\* ------------------------------------------------------- program constants
BackoffCap == 300      \* min(..., 300)
TokenCacheMinutes == 25 \* timedelta(minutes=25)

SourceTypes == {"local", "regional", "global-stream", "global-opensky"}
\* SOURCE_NAME: the default and a name that is no source type.
SourceNames == {"local", "feeder-7"}
\* POLL_INTERVAL is a duration: int(os.getenv(...)) taken non-negative.
PollIntervals == {0, 10, 100}
\* Final statuses of a GET: 300 stands for the statuses below 400 that are not
\* 2xx and that requests hands back as they are (300, 304, a redirect without
\* Location); raise_for_status raises only from 400 on.
Statuses == {200, 300, 403, 429, 500}
\* Statuses of a refused POST to the token endpoint.
TokenStatuses == {401, 403}
AllUrls == <<"url1", "url2", "url3", "url4">>

\* JSON shape of one coordinate of a payload entry: the key (or the array
\* slot, for OpenSky state vectors) is absent, holds null, or holds a number.
Shapes == {"absent", "null", "val"}
Good == [lat |-> "val", lon |-> "val"]

\* Payloads a 2xx response may carry in the poll-loop specification.
PayloadFive == <<Good, Good, Good, Good, Good>>
PayloadNull == <<[lat |-> "null", lon |-> "val"], Good>>
PayloadAbsent == <<[lat |-> "val", lon |-> "absent"]>>
SamplePayloads == {<< >>, PayloadFive, PayloadNull, PayloadAbsent}

VARIABLES
    \* ConfigManager
    source_type, source_urls, poll_interval, max_consecutive_errors,
    source_name, kafka_topic, opensky_client_id, opensky_client_secret,
    \* OpenSkyOAuth2: the cached token and its expiry; the clock it reads (in
    \* minutes); history: get_access_token calls and token requests made, what
    \* the latest call returned, when the cached token was acquired
    access_token, token_expiry, now, tokenCalls, tokenRequests, tokenReturned,
    tokenAcquiredAt,
    \* main()
    pc, error_count, rate_limit_backoff, data, exit_code,
    \* KafkaPublisher.producer, scraper.url_cycle
    producer, url_cycle,
    \* the response of the latest fetch, the result of the latest publish
    response, publishResult,
    \* history: calls made so far and what they were given
    fetchCount, lastUrl, dataId, publishCount, publishedId,
    sleepCount, lastSleep, exitReason, scenario,
    \* history: settle sleeps completed, close() calls made, and for the
    \* current cycle the except clause that caught its failure and the
    \* on_error calls of its publish
    settleCount, closeCount, handled, errbacks,
    \* history: seconds slept since the latest fetch call; failures since the
    \* latest successful publish; fetch calls of the current run of failed
    \* cycles and the error count the run started from
    waited, failedSince, failRun, failBase

vars == <<source_type, source_urls, poll_interval, max_consecutive_errors,
          source_name, kafka_topic, opensky_client_id, opensky_client_secret,
          access_token, token_expiry, now, tokenCalls, tokenRequests, tokenReturned,
          tokenAcquiredAt,
          waited, failedSince, failRun, failBase,
          pc, error_count, rate_limit_backoff, data, exit_code,
          producer, url_cycle, response, publishResult,
          fetchCount, lastUrl, dataId, publishCount, publishedId,
          sleepCount, lastSleep, exitReason, scenario,
          settleCount, closeCount, handled, errbacks>>

config == <<source_type, source_urls, poll_interval, max_consecutive_errors,
            source_name, kafka_topic, opensky_client_id, opensky_client_secret>>
oauth == <<access_token, token_expiry, now, tokenCalls, tokenRequests, tokenReturned,
           tokenAcquiredAt>>
history == <<fetchCount, lastUrl, dataId, publishCount, publishedId,
             sleepCount, lastSleep, waited, exitReason, scenario>>
streak == <<failedSince, failRun, failBase>>
marks == <<settleCount, closeCount, handled, errbacks>>

Min(a, b) == IF a <= b THEN a ELSE b

\* --------------------------------------------------------------- scrapers
\* dict.get(key): None when the key is absent or holds null.
Get(shape) == IF shape = "val" THEN "val" ELSE "null"

\* The record built from one surviving entry (position fields only).
Normalize(ac) == [lat |-> Get(ac.lat), lon |-> Get(ac.lon)]

MapNormalize(acs) == [i \in 1..Len(acs) |-> Normalize(acs[i])]

\* Variant: the clock is read again for every record.
StampPerRecord(records, name, clock) ==
    [i \in 1..Len(records) |->
        [lat |-> records[i].lat, lon |-> records[i].lon,
         source |-> name, scrape_time |-> clock + i - 1]]

\* 'source': self.name, 'scrape_time': scrape_time: the scraper's name and
\* the one reading of the clock taken right after requests.get returned.
Stamp(records, name, clock) ==
    [i \in 1..Len(records) |->
        [lat |-> records[i].lat, lon |-> records[i].lon,
         source |-> name, scrape_time |-> clock]]

\* LocalScraper: if 'lat' not in ac or 'lon' not in ac: continue
KeepLocal(ac) == ~(ac.lat = "absent" \/ ac.lon = "absent")

\* RegionalScraper: if ac.get('lat') is None or ac.get('lon') is None: continue
KeepRegional(ac) == ~(Get(ac.lat) = "null" \/ Get(ac.lon) = "null")

\* GlobalStreamScraper: if ac.get('lat') is None or ac.get('lon') is None: continue
KeepGlobalStream(ac) == ~(Get(ac.lat) = "null" \/ Get(ac.lon) = "null")

\* GlobalOpenSkyScraper: if state[5] is None or state[6] is None: continue
\* (state[5] is the longitude, state[6] the latitude).
KeepOpenSky(state) == ~(state.lon = "null" \/ state.lat = "null")

\* Indexing a state vector too short to hold the slot raises IndexError;
\* state[6] is evaluated only when state[5] is not None.
OpenSkyRaises(state) ==
    \/ state.lon = "absent"
    \/ (state.lon # "null" /\ state.lat = "absent")

Raise(class) == [kind |-> class, records |-> << >>]
Return(records) == [kind |-> "ok", records |-> records]

\* Variant: only 429 is told apart, 403 is left to raise_for_status.
StatusClassOnly429(status) ==
    IF status = 429 THEN "rate_limit"
    ELSE IF status >= 400 THEN "error"
    ELSE "ok"

\* The part of fetch() shared by the four scrapers once requests.get has
\* returned: 429 and 403 raise RateLimitException, raise_for_status raises on
\* any other status >= 400.
StatusClass(status) ==
    IF status = 429 THEN "rate_limit"
    ELSE IF status = 403 THEN "rate_limit"
    ELSE IF status >= 400 THEN "error"
    ELSE "ok"

LocalFetch(r) ==
    IF r.kind # "http" THEN Raise("error")
    ELSE IF StatusClass(r.status) # "ok" THEN Raise(StatusClass(r.status))
    ELSE Return(MapNormalize(SelectSeq(r.payload, KeepLocal)))

RegionalFetch(r) ==
    IF r.kind # "http" THEN Raise("error")
    ELSE IF StatusClass(r.status) # "ok" THEN Raise(StatusClass(r.status))
    ELSE Return(MapNormalize(SelectSeq(r.payload, KeepRegional)))

GlobalStreamFetch(r) ==
    IF r.kind # "http" THEN Raise("error")
    ELSE IF StatusClass(r.status) # "ok" THEN Raise(StatusClass(r.status))
    ELSE Return(MapNormalize(SelectSeq(r.payload, KeepGlobalStream)))

\* get_access_token() runs inside the try block: whatever it raises is
\* re-raised by "except Exception".
OpenSkyFetch(r) ==
    IF r.kind # "http" THEN Raise("error")
    ELSE IF StatusClass(r.status) # "ok" THEN Raise(StatusClass(r.status))
    ELSE IF \E i \in 1..Len(r.payload) : OpenSkyRaises(r.payload[i]) THEN Raise("error")
    ELSE Return(MapNormalize(SelectSeq(r.payload, KeepOpenSky)))

ScraperFetch(variant, r) ==
    CASE variant = "local" -> LocalFetch(r)
      [] variant = "regional" -> RegionalFetch(r)
      [] variant = "global-stream" -> GlobalStreamFetch(r)
      [] OTHER -> OpenSkyFetch(r)

\* Variant: a cursor that stops at the last URL instead of wrapping.
NextCursorNoWrap(c, n) == IF c < n THEN c + 1 ELSE c

\* next(self.url_cycle): the position after c in cycle(urls).
NextCursor(c, n) == (c % n) + 1

\* What one fetch call may meet.
HttpResponse(status, payload) ==
    [kind |-> "http", status |-> status, payload |-> IF status < 400 THEN payload ELSE << >>]
\* requests.get raises (connection error, timeout)
TransportError == [kind |-> "transport_error", status |-> 0, payload |-> << >>]
\* response.json() raises: the body of a 200 is not JSON
ParseError == [kind |-> "parse_error", status |-> 200, payload |-> << >>]
\* get_access_token raises: the token endpoint answered with this status
TokenError(status) == [kind |-> "token_error", status |-> status, payload |-> << >>]
NoResponse == [kind |-> "none", status |-> 0, payload |-> << >>]

Responses(variant) ==
    {HttpResponse(s, p) : s \in Statuses, p \in SamplePayloads}
        \cup {TransportError, ParseError}
        \cup (IF variant = "global-opensky"
              THEN {TokenError(s) : s \in TokenStatuses} ELSE {})

\* ---------------------------------------------------------------- main()
\* Variant: the doubling without the cap.
BackoffUncapped(n) == poll_interval * (2 ^ n)

\* min(config.poll_interval * (2 ** error_count), 300)
Backoff(n) == Min(poll_interval * (2 ^ n), BackoffCap)

\* Variant: the budget test written with > instead of >=.
BudgetExceededStrict(n) == n > max_consecutive_errors

\* if error_count >= config.max_consecutive_errors: ... break
BudgetExceeded(n) == n >= max_consecutive_errors

\* Variant: the loop never applies the stored backoff.
LoopTopIgnoresBackoff == "fetch"

\* Top of "while True": the stored rate-limit backoff is slept first.
LoopTop == IF rate_limit_backoff > 0 THEN "backoff_sleep" ELSE "fetch"

Slept(seconds) ==
    /\ sleepCount' = sleepCount + 1
    /\ lastSleep' = seconds
    /\ waited' = waited + seconds

\* The scenario of the specification's section 8.
ScenarioFetches == <<[status |-> 200, n |-> 5], [status |-> 200, n |-> 0],
                     [status |-> 429, n |-> 0], [status |-> 429, n |-> 0],
                     [status |-> 429, n |-> 0]>>
ScenarioConfig ==
    /\ Len(source_urls) = 2
    /\ poll_interval = 10
    /\ max_consecutive_errors = 3

FollowsScenario(r, out) ==
    /\ scenario = "on"
    /\ fetchCount < Len(ScenarioFetches)
    /\ r.kind = "http"
    /\ out.kind # "error"
    /\ ScenarioFetches[fetchCount + 1] = [status |-> r.status, n |-> Len(out.records)]

Init ==
    /\ source_type \in SourceTypes
    /\ source_urls \in {SubSeq(AllUrls, 1, n) : n \in 1..MaxUrls}
    /\ poll_interval \in PollIntervals
    /\ max_consecutive_errors \in 1..MaxErrorBudget
    /\ pc = "startup_settle"
    /\ error_count = 0
    /\ rate_limit_backoff = 0
    /\ data = << >>
    /\ exit_code = -1
    /\ producer = "none"
    /\ url_cycle = 0
    /\ response = NoResponse
    /\ publishResult = "none"
    /\ fetchCount = 0
    /\ lastUrl = "none"
    /\ dataId = 0
    /\ publishCount = 0
    /\ publishedId = 0
    /\ sleepCount = 0
    /\ lastSleep = 0
    /\ exitReason = "none"
    /\ scenario = IF ScenarioConfig THEN "on" ELSE "off"
    /\ settleCount = 0
    /\ closeCount = 0
    /\ handled = "none"
    /\ errbacks = 0
    /\ source_name = "local"
    /\ kafka_topic = "set"
    /\ opensky_client_id = (IF source_type = "global-opensky" THEN "set" ELSE "absent")
    /\ opensky_client_secret = (IF source_type = "global-opensky" THEN "set" ELSE "absent")
    /\ access_token = 0
    /\ token_expiry = 0
    /\ now = 0
    /\ tokenCalls = 0
    /\ tokenRequests = 0
    /\ tokenAcquiredAt = 0
    /\ tokenReturned = 0
    /\ waited = 0
    /\ failedSince = 0
    /\ failRun = 0
    /\ failBase = 0

\* time.sleep(config.startup_settle_time)
StartupSettleDone ==
    /\ pc = "startup_settle"
    /\ settleCount' = settleCount + 1
    /\ pc' = "connect"
    /\ UNCHANGED <<config, oauth, streak, error_count, rate_limit_backoff, data, exit_code,
                   producer, url_cycle, response, publishResult, history,
                   closeCount, handled, errbacks>>

\* Variant: the loop is entered as soon as the producer is connected.
ConnectOkSkipsSettle ==
    /\ pc = "connect"
    /\ producer' = "connected"
    /\ url_cycle' = 1
    /\ pc' = "fetch"
    /\ UNCHANGED <<config, oauth, streak, error_count, rate_limit_backoff, data, exit_code,
                   response, publishResult, history, marks>>

\* KafkaPublisher.connect: KafkaProducer(...) succeeds
ConnectOk ==
    /\ pc = "connect"
    /\ producer' = "connected"
    /\ pc' = "post_kafka_settle"
    /\ UNCHANGED <<config, oauth, streak, error_count, rate_limit_backoff, data, exit_code,
                   url_cycle, response, publishResult, history, marks>>

\* Variant: connect gives up after the first failed attempt.
ConnectFailGivesUp ==
    /\ pc = "connect"
    /\ pc' = "post_kafka_settle"
    /\ UNCHANGED <<config, oauth, streak, error_count, rate_limit_backoff, data, exit_code,
                   producer, url_cycle, response, publishResult, history, marks>>

\* KafkaPublisher.connect: KafkaProducer(...) raises, time.sleep(30) follows
ConnectFail ==
    /\ pc = "connect"
    /\ pc' = "connect_wait"
    /\ UNCHANGED <<config, oauth, streak, error_count, rate_limit_backoff, data, exit_code,
                   producer, url_cycle, response, publishResult, history, marks>>

ConnectWaitDone ==
    /\ pc = "connect_wait"
    /\ pc' = "connect"
    /\ UNCHANGED <<config, oauth, streak, error_count, rate_limit_backoff, data, exit_code,
                   producer, url_cycle, response, publishResult, history, marks>>

\* time.sleep(config.post_kafka_settle_time), then the scraper is built and
\* the loop is entered with error_count = 0 and rate_limit_backoff = 0.
PostKafkaSettleDone ==
    /\ pc = "post_kafka_settle"
    /\ url_cycle' = 1
    /\ error_count' = 0
    /\ rate_limit_backoff' = 0
    /\ settleCount' = settleCount + 1
    /\ pc' = "fetch"
    /\ UNCHANGED <<config, oauth, streak, data, exit_code, producer, response, publishResult, history,
                   closeCount, handled, errbacks>>

\* Variant: the stored backoff is slept but not cleared.
BackoffSleepKeeps ==
    /\ pc = "backoff_sleep"
    /\ Slept(rate_limit_backoff)
    /\ pc' = "fetch"
    /\ UNCHANGED <<config, oauth, streak, error_count, rate_limit_backoff, data,
                   exit_code, producer, url_cycle,
                   response, publishResult, fetchCount, lastUrl, dataId,
                   publishCount, publishedId, exitReason, scenario, marks>>

\* time.sleep(rate_limit_backoff); rate_limit_backoff = 0
BackoffSleepDone ==
    /\ pc = "backoff_sleep"
    /\ Slept(rate_limit_backoff)
    /\ rate_limit_backoff' = 0
    /\ pc' = "fetch"
    /\ UNCHANGED <<config, oauth, streak, error_count, data, exit_code, producer, url_cycle,
                   response, publishResult, fetchCount, lastUrl, dataId,
                   publishCount, publishedId, exitReason, scenario, marks>>

\* Variant: rate-limit failures are backed off but kept out of error_count.
RateLimitHandlerOwnCount ==
    /\ handled' = "rate_limit"
    /\ rate_limit_backoff' = Backoff(1)
    /\ pc' = "rate_limit_sleep"
    /\ UNCHANGED <<error_count, exitReason>>

\* except RateLimitException
RateLimitHandler ==
    /\ error_count' = error_count + 1
    /\ handled' = "rate_limit"
    /\ rate_limit_backoff' = Backoff(error_count + 1)
    /\ IF BudgetExceeded(error_count + 1)
       THEN pc' = "finally" /\ exitReason' = "fatal"
       ELSE pc' = "rate_limit_sleep" /\ UNCHANGED exitReason

\* Variant: the generic handler defers its backoff like the rate-limit one.
ErrorHandlerDefers ==
    /\ error_count' = error_count + 1
    /\ handled' = "error"
    /\ rate_limit_backoff' = Backoff(error_count + 1)
    /\ IF BudgetExceeded(error_count + 1)
       THEN pc' = "finally" /\ exitReason' = "fatal"
       ELSE pc' = "error_sleep" /\ UNCHANGED exitReason

\* Variant: the generic failure is not caught and ends the process.
ErrorHandlerReraises ==
    /\ handled' = "none"
    /\ pc' = "done"
    /\ exitReason' = "uncaught_exception"
    /\ UNCHANGED <<error_count, rate_limit_backoff>>

\* except Exception
ErrorHandler ==
    /\ error_count' = error_count + 1
    /\ handled' = "error"
    /\ UNCHANGED rate_limit_backoff
    /\ IF BudgetExceeded(error_count + 1)
       THEN pc' = "finally" /\ exitReason' = "fatal"
       ELSE pc' = "error_sleep" /\ UNCHANGED exitReason

\* Variant: an empty batch counts as a success and resets the error count.
NoDataResets ==
    /\ pc' = "poll_sleep"
    /\ error_count' = 0
    /\ UNCHANGED <<publishCount, publishedId, publishResult>>

\* Variant: an empty batch is counted like a failure.
NoDataCountsError ==
    /\ pc' = "poll_sleep"
    /\ error_count' = error_count + 1
    /\ UNCHANGED <<publishCount, publishedId, publishResult>>

\* else: logger.warning("No data fetched ..."), then time.sleep(poll_interval)
NoData ==
    /\ pc' = "poll_sleep"
    /\ UNCHANGED <<error_count, publishCount, publishedId, publishResult>>

\* History: one more fetch call in the current run of cycles.
FetchCounted ==
    /\ failRun' = failRun + 1
    /\ UNCHANGED failBase

\* History: the cycle ended in a failure of fetch or of publish.
CycleFailed == failedSince' = failedSince + 1

\* History: the cycle ended without a failure, after a publish or without one.
CycleSucceeded(published) ==
    /\ failedSince' = IF published THEN 0 ELSE failedSince
    /\ failRun' = 0
    /\ failBase' = error_count'

\* data = scraper.fetch(); if data: publisher.publish_batch(...) is entered;
\* else the warning is logged and time.sleep(poll_interval) is entered.
Fetch ==
    /\ pc = "fetch"
    /\ fetchCount < MaxFetches
    /\ \E r \in Responses(source_type) :
         LET out == ScraperFetch(source_type, r) IN
         /\ response' = r
         /\ lastUrl' = source_urls[url_cycle]
         /\ url_cycle' = NextCursor(url_cycle, Len(source_urls))
         /\ fetchCount' = fetchCount + 1
         /\ scenario' = IF FollowsScenario(r, out) THEN "on" ELSE "off"
         /\ CASE out.kind = "ok" ->
                   /\ data' = Stamp(out.records, source_name, fetchCount + 1)
                   /\ dataId' = fetchCount + 1
                   /\ IF out.records # << >>
                      THEN /\ pc' = "publish"
                           /\ publishCount' = publishCount + 1
                           /\ publishedId' = fetchCount + 1
                           /\ publishResult' = "pending"
                           /\ FetchCounted
                           /\ UNCHANGED <<error_count, failedSince>>
                      ELSE NoData /\ CycleSucceeded(FALSE)
                   /\ handled' = "none"
                   /\ UNCHANGED <<rate_limit_backoff, exitReason>>
              [] out.kind = "rate_limit" ->
                   /\ RateLimitHandler
                   /\ FetchCounted
                   /\ CycleFailed
                   /\ UNCHANGED <<data, dataId, publishCount, publishedId, publishResult>>
              [] OTHER ->
                   /\ ErrorHandler
                   /\ FetchCounted
                   /\ CycleFailed
                   /\ UNCHANGED <<data, dataId, publishCount, publishedId, publishResult>>
    /\ errbacks' = 0
    /\ waited' = 0
    /\ UNCHANGED <<config, oauth, exit_code, producer, sleepCount, lastSleep,
                   settleCount, closeCount>>

\* What one publish_batch call of n records meets: producer.send returns or
\* raises, flush(timeout=10) returns or times out, and the broker's negative
\* acknowledgements reach on_error this many times.
PublishMeets(n) ==
    [send : {"returns", "raises"}, flush : {"returns", "timeout"},
     errbacks : 0..Min(MaxErrbacks, n)]

\* Variant: a negative acknowledgement makes the batch fail.
PublishBatchRaisesOnErrback(m) ==
    IF m.send = "raises" THEN "send_error"
    ELSE IF m.flush = "timeout" THEN "flush_timeout"
    ELSE IF m.errbacks > 0 THEN "ack_error"
    ELSE "ok"

\* KafkaPublisher.publish_batch: the exception it re-raises, or "ok" when it
\* returns. on_error only logs, so the acknowledgements do not enter.
PublishBatch(m) ==
    IF m.send = "raises" THEN "send_error"
    ELSE IF m.flush = "timeout" THEN "flush_timeout"
    ELSE "ok"

\* Variant: a successful publish leaves the error count alone.
PublishOkNoReset ==
    /\ pc = "publish"
    /\ \E m \in PublishMeets(Len(data)) :
         /\ PublishBatch(m) = "ok"
         /\ errbacks' = m.errbacks
    /\ publishResult' = "ok"
    /\ pc' = "poll_sleep"
    /\ UNCHANGED error_count
    /\ CycleSucceeded(TRUE)
    /\ UNCHANGED <<config, oauth, rate_limit_backoff, data, exit_code, producer,
                   url_cycle, response, history, settleCount, closeCount, handled>>

\* publish_batch returns: error_count = 0, then time.sleep(poll_interval)
PublishOk ==
    /\ pc = "publish"
    /\ \E m \in PublishMeets(Len(data)) :
         /\ PublishBatch(m) = "ok"
         /\ errbacks' = m.errbacks
    /\ publishResult' = "ok"
    /\ error_count' = 0
    /\ pc' = "poll_sleep"
    /\ CycleSucceeded(TRUE)
    /\ UNCHANGED <<config, oauth, rate_limit_backoff, data, exit_code, producer, url_cycle,
                   response, history, settleCount, closeCount, handled>>

\* Variant: a publish failure is backed off but not counted.
PublishFailNotCounted ==
    /\ pc = "publish"
    /\ \E m \in PublishMeets(Len(data)) :
         /\ PublishBatch(m) # "ok"
         /\ publishResult' = PublishBatch(m)
         /\ errbacks' = m.errbacks
    /\ handled' = "error"
    /\ pc' = "error_sleep"
    /\ CycleFailed
    /\ scenario' = "off"
    /\ UNCHANGED <<config, oauth, data, exit_code, producer, url_cycle, response,
                   fetchCount, lastUrl, dataId, publishCount, publishedId,
                   sleepCount, lastSleep, waited, settleCount, closeCount,
                   error_count, rate_limit_backoff, exitReason, failRun, failBase>>

\* publish_batch raises: producer.send raised, or flush(timeout=10) timed out
PublishFail ==
    /\ pc = "publish"
    /\ \E m \in PublishMeets(Len(data)) :
         /\ PublishBatch(m) # "ok"
         /\ publishResult' = PublishBatch(m)
         /\ errbacks' = m.errbacks
    /\ ErrorHandler
    /\ CycleFailed
    /\ scenario' = "off"
    /\ UNCHANGED <<config, oauth, failRun, failBase, data, exit_code, producer, url_cycle, response,
                   fetchCount, lastUrl, dataId, publishCount, publishedId,
                   sleepCount, lastSleep, waited, settleCount, closeCount>>

\* time.sleep(config.poll_interval) at the end of the try block
PollSleepDone ==
    /\ pc = "poll_sleep"
    /\ Slept(poll_interval)
    /\ pc' = LoopTop
    /\ UNCHANGED <<config, oauth, streak, error_count, rate_limit_backoff, data, exit_code,
                   producer, url_cycle, response, publishResult, fetchCount,
                   lastUrl, dataId, publishCount, publishedId, exitReason, scenario, marks>>

\* Variant: the rate-limit handler sleeps the computed backoff at once.
RateLimitSleepsBackoff ==
    /\ pc = "rate_limit_sleep"
    /\ Slept(rate_limit_backoff)
    /\ rate_limit_backoff' = 0
    /\ pc' = "fetch"
    /\ UNCHANGED <<config, oauth, streak, error_count, data, exit_code, producer, url_cycle,
                   response, publishResult, fetchCount, lastUrl, dataId,
                   publishCount, publishedId, exitReason, scenario, marks>>

\* Variant: the rate-limit handler does not sleep.
RateLimitSleepSkipped ==
    /\ pc = "rate_limit_sleep"
    /\ pc' = LoopTop
    /\ UNCHANGED <<config, oauth, streak, error_count, rate_limit_backoff, data, exit_code,
                   producer, url_cycle, response, publishResult, history, marks>>

\* time.sleep(config.poll_interval) in the RateLimitException handler
RateLimitSleepDone ==
    /\ pc = "rate_limit_sleep"
    /\ Slept(poll_interval)
    /\ pc' = LoopTop
    /\ UNCHANGED <<config, oauth, streak, error_count, rate_limit_backoff, data, exit_code,
                   producer, url_cycle, response, publishResult, fetchCount,
                   lastUrl, dataId, publishCount, publishedId, exitReason, scenario, marks>>

\* Variant: after the backoff a batch whose publish failed is published again.
ErrorSleepDoneRepublish ==
    /\ pc = "error_sleep"
    /\ Slept(Backoff(error_count))
    /\ IF publishResult \in {"send_error", "flush_timeout"}
       THEN /\ pc' = "publish"
            /\ publishCount' = publishCount + 1
            /\ publishResult' = "pending"
       ELSE /\ pc' = LoopTop
            /\ UNCHANGED <<publishCount, publishResult>>
    /\ UNCHANGED <<config, oauth, streak, error_count, rate_limit_backoff, data, exit_code,
                   producer, url_cycle, response, fetchCount,
                   lastUrl, dataId, publishedId, exitReason, scenario, marks>>

\* time.sleep(sleep_time) in the Exception handler
ErrorSleepDone ==
    /\ pc = "error_sleep"
    /\ Slept(Backoff(error_count))
    /\ pc' = LoopTop
    /\ UNCHANGED <<config, oauth, streak, error_count, rate_limit_backoff, data, exit_code,
                   producer, url_cycle, response, publishResult, fetchCount,
                   lastUrl, dataId, publishCount, publishedId, exitReason, scenario, marks>>

StartupBlocking == {"startup_settle", "connect", "connect_wait", "post_kafka_settle"}
LoopBlocking == {"backoff_sleep", "fetch", "publish", "poll_sleep",
                 "rate_limit_sleep", "error_sleep"}

\* Variant: the interrupt is counted like a failure before the loop is left.
InterruptInLoopCounted ==
    /\ pc \in LoopBlocking
    /\ pc' = "finally"
    /\ error_count' = error_count + 1
    /\ exitReason' = "interrupt"
    /\ scenario' = "off"
    /\ UNCHANGED <<config, oauth, streak, rate_limit_backoff, data, exit_code,
                   producer, url_cycle, response, publishResult, fetchCount,
                   lastUrl, dataId, publishCount, publishedId, sleepCount, lastSleep, waited, marks>>

\* KeyboardInterrupt inside the outer try: "Shutting down gracefully..."
InterruptInLoop ==
    /\ pc \in LoopBlocking
    /\ pc' = "finally"
    /\ exitReason' = "interrupt"
    /\ scenario' = "off"
    /\ UNCHANGED <<config, oauth, streak, error_count, rate_limit_backoff, data, exit_code,
                   producer, url_cycle, response, publishResult, fetchCount,
                   lastUrl, dataId, publishCount, publishedId, sleepCount, lastSleep, waited, marks>>

\* KeyboardInterrupt before the outer try is entered: nothing catches it
InterruptAtStartup ==
    /\ pc \in StartupBlocking
    /\ pc' = "done"
    /\ exit_code' = 130    \* the interpreter's status for an uncaught SIGINT
    /\ exitReason' = "uncaught_interrupt"
    /\ scenario' = "off"
    /\ UNCHANGED <<config, oauth, streak, error_count, rate_limit_backoff, data, producer,
                   url_cycle, response, publishResult, fetchCount, lastUrl,
                   dataId, publishCount, publishedId, sleepCount, lastSleep, waited, marks>>

\* finally: publisher.close(); main() returns and the interpreter exits 0
Close ==
    /\ pc = "finally"
    /\ producer' = "closed"
    /\ exit_code' = 0
    /\ closeCount' = closeCount + 1
    /\ pc' = "done"
    /\ UNCHANGED <<config, oauth, streak, error_count, rate_limit_backoff, data, url_cycle,
                   response, publishResult, history, settleCount, handled, errbacks>>

Next ==
    \/ StartupSettleDone
    \/ ConnectOk
    \/ ConnectFail
    \/ ConnectWaitDone
    \/ PostKafkaSettleDone
    \/ BackoffSleepDone
    \/ Fetch
    \/ PublishOk
    \/ PublishFail
    \/ PollSleepDone
    \/ RateLimitSleepDone
    \/ ErrorSleepDone
    \/ InterruptInLoop
    \/ InterruptAtStartup
    \/ Close

Spec == Init /\ [][Next]_vars

\* The loop as main() enters it, with one streaming URL and every
\* POLL_INTERVAL from 0 to MaxPollInterval and an error budget that only the
\* last fetch can exhaust, followed along its runs of consecutive failures:
\* the steps that compute, store and sleep the backoff.
InitBackoff ==
    /\ source_type = "global-stream"
    /\ source_urls = SubSeq(AllUrls, 1, 1)
    /\ poll_interval \in 0..MaxPollInterval
    /\ max_consecutive_errors = MaxFetches
    /\ pc = "fetch"
    /\ error_count = 0
    /\ rate_limit_backoff = 0
    /\ data = << >>
    /\ exit_code = -1
    /\ producer = "connected"
    /\ url_cycle = 1
    /\ response = NoResponse
    /\ publishResult = "none"
    /\ fetchCount = 0
    /\ lastUrl = "none"
    /\ dataId = 0
    /\ publishCount = 0
    /\ publishedId = 0
    /\ sleepCount = 0
    /\ lastSleep = 0
    /\ exitReason = "none"
    /\ scenario = "off"
    /\ settleCount = 2
    /\ closeCount = 0
    /\ handled = "none"
    /\ errbacks = 0
    /\ source_name = "local"
    /\ kafka_topic = "set"
    /\ opensky_client_id = (IF source_type = "global-opensky" THEN "set" ELSE "absent")
    /\ opensky_client_secret = (IF source_type = "global-opensky" THEN "set" ELSE "absent")
    /\ access_token = 0
    /\ token_expiry = 0
    /\ now = 0
    /\ tokenCalls = 0
    /\ tokenRequests = 0
    /\ tokenAcquiredAt = 0
    /\ tokenReturned = 0
    /\ waited = 0
    /\ failedSince = 0
    /\ failRun = 0
    /\ failBase = 0

NextBackoff ==
    \/ Fetch
    \/ RateLimitSleepDone
    \/ BackoffSleepDone
    \/ ErrorSleepDone

SpecBackoff == InitBackoff /\ [][NextBackoff]_vars

\* The loop as main() enters it, for every scraper and every SOURCE_NAME, with
\* one URL and no interrupt: the cycles that fetch, stamp and publish batches.
InitFetch ==
    /\ source_type \in SourceTypes
    /\ source_urls = SubSeq(AllUrls, 1, 1)
    /\ poll_interval = 10
    /\ max_consecutive_errors = MaxErrorBudget
    /\ source_name \in SourceNames
    /\ kafka_topic = "set"
    /\ opensky_client_id = (IF source_type = "global-opensky" THEN "set" ELSE "absent")
    /\ opensky_client_secret = (IF source_type = "global-opensky" THEN "set" ELSE "absent")
    /\ pc = "fetch"
    /\ error_count = 0
    /\ rate_limit_backoff = 0
    /\ data = << >>
    /\ exit_code = -1
    /\ producer = "connected"
    /\ url_cycle = 1
    /\ response = NoResponse
    /\ publishResult = "none"
    /\ fetchCount = 0
    /\ lastUrl = "none"
    /\ dataId = 0
    /\ publishCount = 0
    /\ publishedId = 0
    /\ sleepCount = 0
    /\ lastSleep = 0
    /\ exitReason = "none"
    /\ scenario = "off"
    /\ settleCount = 2
    /\ closeCount = 0
    /\ handled = "none"
    /\ errbacks = 0
    /\ access_token = 0
    /\ token_expiry = 0
    /\ now = 0
    /\ tokenCalls = 0
    /\ tokenRequests = 0
    /\ tokenAcquiredAt = 0
    /\ tokenReturned = 0
    /\ waited = 0
    /\ failedSince = 0
    /\ failRun = 0
    /\ failBase = 0

NextFetch ==
    \/ Fetch
    \/ PublishOk
    \/ PublishFail
    \/ PollSleepDone
    \/ RateLimitSleepDone
    \/ BackoffSleepDone
    \/ ErrorSleepDone

SpecFetch == InitFetch /\ [][NextFetch]_vars

\* ----------------------------------------------------------- OpenSkyOAuth2
\* Tokens are named by the request that brought them: 0 is None, k is the
\* token of the k-th request. A call returns a token or raises (-1).
TokenRaised == -1

\* if self.access_token and self.token_expiry and datetime.now() < self.token_expiry
CacheValid == access_token # 0 /\ token_expiry # 0 /\ now < token_expiry

\* Variant: the expiry is set to the token's full life of 30 minutes.
ExpiryFullLife(clock) == clock + 30

\* self.token_expiry = datetime.now() + timedelta(minutes=25)
Expiry(clock) == clock + TokenCacheMinutes

\* get_access_token: the cached token is returned, no request is made
GetTokenCached ==
    /\ tokenCalls < MaxTokenCalls
    /\ CacheValid
    /\ tokenCalls' = tokenCalls + 1
    /\ tokenReturned' = access_token
    /\ UNCHANGED <<access_token, token_expiry, now, tokenRequests, tokenAcquiredAt>>

\* get_access_token: requests.post answers with a token, which is cached
GetTokenOk ==
    /\ tokenCalls < MaxTokenCalls
    /\ ~CacheValid
    /\ tokenCalls' = tokenCalls + 1
    /\ tokenRequests' = tokenRequests + 1
    /\ access_token' = tokenRequests + 1
    /\ token_expiry' = Expiry(now)
    /\ tokenAcquiredAt' = now
    /\ tokenReturned' = tokenRequests + 1
    /\ UNCHANGED now

\* get_access_token: requests.post, raise_for_status, response.json() or
\* token_data['access_token'] raises; the exception is re-raised
GetTokenFail ==
    /\ tokenCalls < MaxTokenCalls
    /\ ~CacheValid
    /\ tokenCalls' = tokenCalls + 1
    /\ tokenRequests' = tokenRequests + 1
    /\ tokenReturned' = TokenRaised
    /\ UNCHANGED <<access_token, token_expiry, now, tokenAcquiredAt>>

\* One minute passes on the clock datetime.now() reads.
ClockTick ==
    /\ now < MaxClock
    /\ now' = now + 1
    /\ UNCHANGED <<access_token, token_expiry, tokenCalls, tokenRequests,
                   tokenReturned, tokenAcquiredAt>>

\* Everything but the token provider and its clock.
loop == <<config, pc, error_count, rate_limit_backoff, data, exit_code, producer,
          url_cycle, response, publishResult, history, marks, streak>>

\* The OpenSky scraper's token provider as GlobalOpenSkyScraper.__init__
\* builds it, called again and again while time passes.
InitToken ==
    /\ source_type = "global-opensky"
    /\ source_urls = SubSeq(AllUrls, 1, 1)
    /\ poll_interval = 10
    /\ max_consecutive_errors = MaxErrorBudget
    /\ source_name = "local"
    /\ kafka_topic = "set"
    /\ opensky_client_id = "set"
    /\ opensky_client_secret = "set"
    /\ pc = "fetch"
    /\ error_count = 0
    /\ rate_limit_backoff = 0
    /\ data = << >>
    /\ exit_code = -1
    /\ producer = "connected"
    /\ url_cycle = 1
    /\ response = NoResponse
    /\ publishResult = "none"
    /\ fetchCount = 0
    /\ lastUrl = "none"
    /\ dataId = 0
    /\ publishCount = 0
    /\ publishedId = 0
    /\ sleepCount = 0
    /\ lastSleep = 0
    /\ exitReason = "none"
    /\ scenario = "off"
    /\ settleCount = 2
    /\ closeCount = 0
    /\ handled = "none"
    /\ errbacks = 0
    /\ access_token = 0
    /\ token_expiry = 0
    /\ now = 0
    /\ tokenCalls = 0
    /\ tokenRequests = 0
    /\ tokenAcquiredAt = 0
    /\ tokenReturned = 0
    /\ waited = 0
    /\ failedSince = 0
    /\ failRun = 0
    /\ failBase = 0

NextToken ==
    \/ (GetTokenCached /\ UNCHANGED loop)
    \/ (GetTokenOk /\ UNCHANGED loop)
    \/ (GetTokenFail /\ UNCHANGED loop)
    \/ (ClockTick /\ UNCHANGED loop)

SpecToken == InitToken /\ [][NextToken]_vars

\* ----------------------------------------------------------- ConfigManager
\* os.getenv(name) for a variable without default: None, '' or a value.
EnvValues == {"absent", "empty", "set"}
\* SOURCE_TYPE: the four known types and one that is none of them.
EnvSourceTypes == SourceTypes \cup {"bogus"}

\* Variant: validate does not look at the credentials.
ValidateTypeOnly(type, id, secret) ==
    IF type \notin SourceTypes THEN "ValueError" ELSE "ok"

\* ConfigManager.validate: "not x" holds for None and for ''.
Validate(type, id, secret) ==
    IF type \notin SourceTypes THEN "ValueError"
    ELSE IF type = "global-opensky" /\ (id # "set" \/ secret # "set") THEN "ValueError"
    ELSE "ok"

\* ConfigManager.__init__: KAFKA_TOPIC and SOURCE_URLS are required, the
\* credentials are read as they are, validate() runs last.
Construct(topic, urls, type, id, secret) ==
    IF topic # "set" THEN "ValueError"
    ELSE IF urls = << >> THEN "ValueError"
    ELSE Validate(type, id, secret)

\* main() before config = ConfigManager(): any environment.
InitConfig ==
    /\ source_type \in EnvSourceTypes
    /\ source_urls \in {SubSeq(AllUrls, 1, n) : n \in 0..MaxUrls}
    /\ poll_interval = 10
    /\ max_consecutive_errors = MaxErrorBudget
    /\ source_name \in SourceNames
    /\ kafka_topic \in EnvValues
    /\ opensky_client_id \in EnvValues
    /\ opensky_client_secret \in EnvValues
    /\ pc = "config"
    /\ error_count = 0
    /\ rate_limit_backoff = 0
    /\ data = << >>
    /\ exit_code = -1
    /\ producer = "none"
    /\ url_cycle = 0
    /\ response = NoResponse
    /\ publishResult = "none"
    /\ fetchCount = 0
    /\ lastUrl = "none"
    /\ dataId = 0
    /\ publishCount = 0
    /\ publishedId = 0
    /\ sleepCount = 0
    /\ lastSleep = 0
    /\ exitReason = "none"
    /\ scenario = "off"
    /\ settleCount = 0
    /\ closeCount = 0
    /\ handled = "none"
    /\ errbacks = 0
    /\ access_token = 0
    /\ token_expiry = 0
    /\ now = 0
    /\ tokenCalls = 0
    /\ tokenRequests = 0
    /\ tokenAcquiredAt = 0
    /\ tokenReturned = 0
    /\ waited = 0
    /\ failedSince = 0
    /\ failRun = 0
    /\ failBase = 0

\* config = ConfigManager() returns; the startup settle sleep is entered
ConfigOk ==
    /\ pc = "config"
    /\ Construct(kafka_topic, source_urls, source_type,
                 opensky_client_id, opensky_client_secret) = "ok"
    /\ pc' = "startup_settle"
    /\ UNCHANGED <<config, oauth, streak, error_count, rate_limit_backoff, data,
                   exit_code, producer, url_cycle, response, publishResult,
                   history, marks>>

\* config = ConfigManager() raises ValueError: nothing catches it
ConfigFail ==
    /\ pc = "config"
    /\ Construct(kafka_topic, source_urls, source_type,
                 opensky_client_id, opensky_client_secret) # "ok"
    /\ pc' = "done"
    /\ exit_code' = 1    \* the interpreter's status for an uncaught exception
    /\ exitReason' = "config_error"
    /\ UNCHANGED <<config, oauth, streak, error_count, rate_limit_backoff, data,
                   producer, url_cycle, response, publishResult,
                   fetchCount, lastUrl, dataId, publishCount, publishedId,
                   sleepCount, lastSleep, waited, scenario, marks>>

NextConfig ==
    \/ ConfigOk
    \/ ConfigFail
    \/ StartupSettleDone

SpecConfig == InitConfig /\ [][NextConfig]_vars

\* ------------------------------------------------------------ properties
\* The backoff the specification states: min(pollInterval * 2^n, 300).
ClaimedBackoff(n) ==
    IF poll_interval * (2 ^ n) < 300 THEN poll_interval * (2 ^ n) ELSE 300

Left == {"finally", "done"}
PublishFailures == {"send_error", "flush_timeout"}
FetchStep == fetchCount' = fetchCount + 1
RateLimitedFetch == response'.kind = "http" /\ response'.status \in {429, 403}
FetchFailed == dataId' # fetchCount'

\* C1: the loop is left on the error-budget path exactly when a failure
\* handler has raised error_count to max_consecutive_errors or more: a failure
\* that leaves the count below the maximum continues the loop, one that
\* reaches it goes to the teardown, and after that no fetch, publish or sleep
\* is performed.
C1_ErrorBudgetExit ==
    /\ [](exitReason = "fatal" => (error_count >= max_consecutive_errors /\ pc \in Left))
    /\ [](pc \in LoopBlocking => error_count < max_consecutive_errors)
    /\ [][(error_count' = error_count + 1 /\ error_count' < max_consecutive_errors)
            => (pc' \in {"rate_limit_sleep", "error_sleep"} /\ exitReason' = "none")]_vars
    /\ [][(error_count' = error_count + 1 /\ error_count' >= max_consecutive_errors)
            => (pc' = "finally" /\ exitReason' = "fatal")]_vars
    /\ [][exitReason = "fatal"
            => (fetchCount' = fetchCount /\ publishCount' = publishCount
                /\ sleepCount' = sleepCount)]_vars

\* C1 witness: the budget was used up while more fetches were still allowed.
C1_Witness ==
    /\ pc = "done"
    /\ exitReason = "fatal"
    /\ max_consecutive_errors = 3
    /\ error_count = 3
    /\ fetchCount < MaxFetches

\* C2: every publish call that succeeds leaves error_count = 0, whatever the
\* count was before the call.
C2_PublishResets ==
    [][(pc = "publish" /\ publishResult' = "ok") => error_count' = 0]_vars

\* C2 witness: a publish succeeded right after a backoff of 4 * poll_interval,
\* that is with a count of 2 before the call.
C2_Witness ==
    /\ pc = "poll_sleep"
    /\ publishResult = "ok"
    /\ dataId = fetchCount
    /\ error_count = 0
    /\ poll_interval = 10
    /\ lastSleep = 40

\* C3: a fetch that returns an empty batch makes no publish call and leaves
\* error_count as it was; the loop then sleeps poll_interval and fetches again.
C3_EmptyBatch ==
    /\ [][(FetchStep /\ ~FetchFailed /\ data' = << >>)
            => (error_count' = error_count /\ publishCount' = publishCount
                /\ pc' = "poll_sleep")]_vars
    /\ [][(pc = "poll_sleep" /\ pc' \notin {"poll_sleep", "finally"})
            => (sleepCount' = sleepCount + 1 /\ lastSleep' = poll_interval
                /\ error_count' = error_count /\ pc' = "fetch")]_vars

\* C3 witness: an empty batch arrived while the count was 2.
C3_Witness ==
    /\ pc = "poll_sleep"
    /\ dataId = fetchCount
    /\ data = << >>
    /\ error_count = 2

\* C4: a rate-limit failure that leaves the count n below the maximum stores
\* min(poll_interval * 2^n, 300), sleeps poll_interval, and the next cycle
\* sleeps the stored value and resets it to 0 before it fetches (a stored
\* value of 0, which a poll interval of 0 gives, is a sleep of no length).
C4_DeferredBackoff ==
    /\ [][(FetchStep /\ RateLimitedFetch /\ error_count' < max_consecutive_errors)
            => (error_count' = error_count + 1
                /\ rate_limit_backoff' = ClaimedBackoff(error_count')
                /\ pc' = "rate_limit_sleep")]_vars
    /\ [][(pc = "rate_limit_sleep" /\ pc' \notin {"rate_limit_sleep", "finally"})
            => (sleepCount' = sleepCount + 1 /\ lastSleep' = poll_interval
                /\ rate_limit_backoff' = rate_limit_backoff
                /\ fetchCount' = fetchCount
                /\ pc' = IF rate_limit_backoff > 0 THEN "backoff_sleep" ELSE "fetch")]_vars
    /\ [][(pc = "backoff_sleep" /\ pc' \notin {"backoff_sleep", "finally"})
            => (sleepCount' = sleepCount + 1 /\ lastSleep' = rate_limit_backoff
                /\ rate_limit_backoff' = 0
                /\ fetchCount' = fetchCount /\ pc' = "fetch")]_vars
    /\ [](pc = "fetch" => rate_limit_backoff = 0)
    /\ [](pc \in {"rate_limit_sleep", "backoff_sleep"}
            => rate_limit_backoff = ClaimedBackoff(error_count))

\* C4 witness: the stored backoff of a second 429 in a row has been slept.
C4_Witness ==
    /\ pc = "fetch"
    /\ response.status = 429
    /\ error_count = 2
    /\ poll_interval = 10
    /\ lastSleep = 40
    /\ rate_limit_backoff = 0

\* C5: a failure that is not a rate limit (of the fetch, or raised by publish)
\* and leaves the count n below the maximum sleeps min(poll_interval * 2^n, 300)
\* in the same cycle, stores no backoff, and the next fetch follows that sleep.
C5_ImmediateBackoff ==
    /\ [][(\/ FetchStep /\ FetchFailed /\ ~RateLimitedFetch
           \/ pc = "publish" /\ publishResult' \in PublishFailures)
          /\ error_count' < max_consecutive_errors
            => (error_count' = error_count + 1
                /\ rate_limit_backoff' = 0
                /\ pc' = "error_sleep")]_vars
    /\ [][(pc = "error_sleep" /\ pc' \notin {"error_sleep", "finally"})
            => (sleepCount' = sleepCount + 1
                /\ lastSleep' = ClaimedBackoff(error_count)
                /\ rate_limit_backoff' = 0
                /\ fetchCount' = fetchCount /\ pc' = "fetch")]_vars

\* C5 witness: a flush timeout with count 2 was followed by the capped sleep.
C5_Witness ==
    /\ pc = "fetch"
    /\ publishResult = "flush_timeout"
    /\ dataId = fetchCount
    /\ error_count = 2
    /\ poll_interval = 100
    /\ lastSleep = 300

\* C6: the exit code is 0 after an interrupt of the loop and non-zero after
\* the error budget was used up.
C6_ExitCodes ==
    pc = "done" =>
        /\ (exitReason = "interrupt" => exit_code = 0)
        /\ (exitReason = "fatal" => exit_code # 0)

\* The run of the section 8 scenario, one row per blocking call reached:
\* fetches made, position, error count, stored backoff, sleeps made, last
\* sleep, publish calls made.
ScenarioRow(fc, at, ec, stored, sleeps, last, publishes) ==
    [fc |-> fc, at |-> at, ec |-> ec, stored |-> stored, sleeps |-> sleeps,
     last |-> last, publishes |-> publishes]

ScenarioRun ==
    {ScenarioRow(0, p, 0, 0, 0, 0, 0) : p \in StartupBlocking \cup {"fetch"}}
    \cup {ScenarioRow(1, "publish", 0, 0, 0, 0, 1),
          ScenarioRow(1, "poll_sleep", 0, 0, 0, 0, 1),
          ScenarioRow(1, "fetch", 0, 0, 1, 10, 1),
          ScenarioRow(2, "poll_sleep", 0, 0, 1, 10, 1),
          ScenarioRow(2, "fetch", 0, 0, 2, 10, 1),
          ScenarioRow(3, "rate_limit_sleep", 1, 20, 2, 10, 1),
          ScenarioRow(3, "backoff_sleep", 1, 20, 3, 10, 1),
          ScenarioRow(3, "fetch", 1, 0, 4, 20, 1),
          ScenarioRow(4, "rate_limit_sleep", 2, 40, 4, 20, 1),
          ScenarioRow(4, "backoff_sleep", 2, 40, 5, 10, 1),
          ScenarioRow(4, "fetch", 2, 0, 6, 40, 1),
          ScenarioRow(5, "finally", 3, 80, 6, 40, 1),
          ScenarioRow(5, "done", 3, 80, 6, 40, 1)}

\* C7: with 2 URLs, poll interval 10, budget 3 and the fetches 5 records,
\* 0 records, 429, 429, 429: one publish (of the 5 records), counts 0,0,1,2,3,
\* stored backoff 20 then 40, sleeps 10, 10, 10, 20, 10, 40, and no sleep
\* after the fifth fetch.
C7_Scenario ==
    scenario = "on" =>
        /\ ScenarioRow(fetchCount, pc, error_count, rate_limit_backoff,
                       sleepCount, lastSleep, publishCount) \in ScenarioRun
        /\ (publishCount = 1 => publishedId = 1)
        /\ (fetchCount = 1 => Len(data) = 5)
        /\ (fetchCount = 5 => exitReason = "fatal")

\* C7 witness: the scenario ran to its end.
C7_Witness ==
    /\ scenario = "on"
    /\ fetchCount = 5
    /\ pc = "done"

\* C8: a publish that fails raises error_count by exactly 1, and the batch
\* is not passed to publish again: every publish call carries the result of
\* the fetch made just before it.
C8_FailedBatchDropped ==
    /\ [][(pc = "publish" /\ publishResult' \in PublishFailures)
            => (error_count' = error_count + 1
                /\ pc' \in {"error_sleep", "finally"})]_vars
    /\ [][publishCount' # publishCount
            => (FetchStep /\ dataId' = fetchCount' /\ dataId' > publishedId
                /\ publishedId' = dataId')]_vars
    /\ [](pc = "publish" => (dataId = fetchCount /\ publishedId = dataId))

\* C8 witness: two fetches, two publish calls, the first of which failed.
C8_Witness ==
    /\ pc = "publish"
    /\ fetchCount = 2
    /\ publishCount = 2
    /\ error_count = 1
    /\ dataId = 2

\* C9: the k-th fetch call uses URL ((k-1) mod N) + 1 of the N configured
\* URLs, whatever the outcomes of the calls before it.
C9_UrlRotation ==
    /\ (fetchCount > 0 =>
            lastUrl = source_urls[((fetchCount - 1) % Len(source_urls)) + 1])
    /\ (url_cycle > 0 => url_cycle = (fetchCount % Len(source_urls)) + 1)

\* C9 witness: after a token failure and two more calls the first of two
\* URLs is used again.
C9_Witness ==
    /\ Len(source_urls) = 2
    /\ fetchCount = 3
    /\ lastUrl = "url1"
    /\ response.kind = "token_error"
    /\ error_count = 1

\* C10: no record of a fetched batch lacks a latitude or a longitude.
C10_NoMissingPosition ==
    \A i \in 1..Len(data) : data[i].lat # "null" /\ data[i].lon # "null"

\* C11: no fetch is attempted, and the loop is not entered, before the
\* startup settle sleep, the producer's connection and the post-connect settle
\* sleep have all completed.
C11_NoFetchBeforeSettled ==
    (fetchCount > 0 \/ pc \in LoopBlocking) =>
        (settleCount = 2 /\ producer # "none")

\* C11 witness: the first fetch was made after both sleeps, on a connected
\* producer.
C11_Witness ==
    /\ fetchCount = 1
    /\ settleCount = 2
    /\ producer = "connected"
    /\ pc = "publish"

\* C12 as stated: the producer is connected before the first settle sleep
\* starts, so whenever that sleep runs or has run the producer is there.
C12_ConnectBeforeSettling ==
    (pc = "startup_settle" \/ settleCount >= 1) => producer # "none"

\* C12 amended: connect runs after the startup settle sleep and completes
\* before the post-connect settle sleep starts (hence before any fetch): it is
\* attempted only with exactly one settle sleep done, and the second settle
\* sleep runs only on a connected producer.
C12_ConnectBetweenSettles ==
    /\ (pc \in {"connect", "connect_wait"} => (settleCount = 1 /\ producer = "none"))
    /\ (producer # "none" => settleCount >= 1)
    /\ ((pc = "post_kafka_settle" \/ settleCount = 2) => producer # "none")

\* C12 witness: the post-connect settle sleep runs on a connected producer
\* after the startup settle sleep.
C12_Witness ==
    /\ pc = "post_kafka_settle"
    /\ producer = "connected"
    /\ settleCount = 1

\* C13: once a producer has been constructed, the process does not end with
\* it still open, whichever sleep the interrupt arrived in.
C13_InterruptClosesPublisher ==
    pc = "done" => producer # "connected"

\* C14: every way out of the loop, error budget or interrupt, leads to finally
\* and to one close(): the producer is closed exactly once, nothing is fetched
\* or published once the loop is left, and the interrupt leaves error_count
\* as it was.
C14_SingleTeardown ==
    /\ [](closeCount <= 1)
    /\ []((pc = "done" /\ exitReason \in {"fatal", "interrupt"})
            => (closeCount = 1 /\ producer = "closed"))
    /\ [][(pc \in LoopBlocking /\ pc' \notin LoopBlocking)
            => (pc' = "finally" /\ exitReason' \in {"fatal", "interrupt"})]_vars
    /\ [][pc = "finally"
            => (pc' = "done" /\ closeCount' = 1 /\ producer' = "closed")]_vars
    /\ [][(pc \in Left)
            => (fetchCount' = fetchCount /\ publishCount' = publishCount
                /\ publishResult' = publishResult)]_vars
    /\ [][(exitReason # "interrupt" /\ exitReason' = "interrupt")
            => error_count' = error_count]_vars

\* C14 witness: an interrupt after a publish and one counted failure ended
\* in one close(), the count still 1.
C14_Witness ==
    /\ pc = "done"
    /\ exitReason = "interrupt"
    /\ closeCount = 1
    /\ producer = "closed"
    /\ publishCount >= 1
    /\ error_count = 1

\* A fetch call that got a final HTTP status from the data endpoint.
HttpFetch == FetchStep /\ response'.kind = "http"
\* What the deferred-backoff branch does with a failure.
DeferredBranch ==
    /\ handled' = "rate_limit"
    /\ error_count' = error_count + 1
    /\ rate_limit_backoff' = ClaimedBackoff(error_count + 1)
    /\ pc' \in {"rate_limit_sleep", "finally"}
\* What the immediate-backoff branch does with a failure.
ImmediateBranch ==
    /\ handled' = "error"
    /\ error_count' = error_count + 1
    /\ rate_limit_backoff' = rate_limit_backoff
    /\ pc' \in {"error_sleep", "finally"}

\* C15 as stated: in every variant a 429 or a 403 is handled by the
\* deferred-backoff branch, and every other fetch failure, any other non-2xx
\* status, a transport error or timeout, a parse error, by the
\* immediate-backoff branch; no failure by both or by neither.
C15_FailureClasses ==
    /\ [][(HttpFetch /\ response'.status \in {429, 403}) => DeferredBranch]_vars
    /\ [][(HttpFetch /\ response'.status \notin {429, 403}
              /\ (response'.status < 200 \/ response'.status >= 300))
            => ImmediateBranch]_vars
    /\ [][(FetchStep /\ response'.kind \in {"transport_error", "parse_error"})
            => ImmediateBranch]_vars
    /\ [][(FetchStep /\ FetchFailed) => handled' \in {"rate_limit", "error"}]_vars

\* C15 amended: in every variant a 429 or a 403 is handled by the
\* deferred-backoff branch, and every other fetch failure, any other status
\* of 400 or more, a transport error or timeout, a parse error, by the
\* immediate-backoff branch; a final status below 400 is not a failure by
\* itself, its body is parsed like that of a 200; no failure is handled by
\* both branches or by neither.
C15_FailureClassesFrom400 ==
    /\ [][(HttpFetch /\ response'.status \in {429, 403}) => DeferredBranch]_vars
    /\ [][(HttpFetch /\ response'.status \notin {429, 403} /\ response'.status >= 400)
            => ImmediateBranch]_vars
    /\ [][(FetchStep /\ response'.kind \in {"transport_error", "parse_error"})
            => ImmediateBranch]_vars
    /\ [][(HttpFetch /\ response'.status < 400)
            => \/ (handled' = "none" /\ ~FetchFailed /\ error_count' = error_count)
               \/ (ImmediateBranch /\ source_type = "global-opensky"
                    /\ \E i \in 1..Len(response'.payload) :
                          response'.payload[i].lon = "absent"
                          \/ response'.payload[i].lat = "absent")]_vars
    /\ [][(FetchStep /\ FetchFailed) => (DeferredBranch \/ ImmediateBranch)]_vars
    /\ [][~(DeferredBranch /\ ImmediateBranch)]_vars

\* C15 witness: a 403 met by the regional scraper was handled by the
\* deferred-backoff branch right after a 500 handled by the other one.
C15_Witness ==
    /\ source_type = "regional"
    /\ response.kind = "http"
    /\ response.status = 403
    /\ handled = "rate_limit"
    /\ pc = "rate_limit_sleep"
    /\ error_count = 2
    /\ rate_limit_backoff = ClaimedBackoff(2)

\* C16: with the OAuth2 scraper a failed token request, the token endpoint
\* answering 401 or 403, is handled by the deferred-backoff branch.
C16_TokenFailureDeferred ==
    [][(FetchStep /\ response'.kind = "token_error") => DeferredBranch]_vars

\* C17: a negative acknowledgement does not fail the batch: a publish call
\* whose sends and flush returned ends ok with error_count reset to 0, also
\* when on_error was called for some of its records.
C17_AckFailureIgnored ==
    /\ [][(pc = "publish" /\ errbacks' > 0
              /\ publishResult' \notin (PublishFailures \cup {"pending"}))
            => (publishResult' = "ok" /\ error_count' = 0 /\ pc' = "poll_sleep"
                /\ handled' = "none")]_vars
    /\ []((pc = "poll_sleep" /\ publishResult = "ok" /\ data # << >>)
            => error_count = 0)

\* C17 witness: after a counted failure, a batch whose acknowledgement failed
\* was published and the count is 0 again.
C17_Witness ==
    /\ pc = "poll_sleep"
    /\ publishResult = "ok"
    /\ errbacks = 1
    /\ error_count = 0
    /\ fetchCount = 2
    /\ publishCount = 1

\* C18: the backoff is min(poll_interval * 2^n, 300) at every exponent, it
\* does not decrease from n to n + 1 for any poll_interval >= 0, it never
\* exceeds 300, and it is the value both branches use: the rate-limit branch
\* stores it and the next iteration sleeps it, the generic branch sleeps it in
\* the handler.
C18_Backoff ==
    /\ [](\A n \in 0..MaxExponent :
            /\ Backoff(n) = ClaimedBackoff(n)
            /\ Backoff(n) <= Backoff(n + 1)
            /\ Backoff(n) <= 300)
    /\ [][(FetchStep /\ handled' = "rate_limit")
            => rate_limit_backoff' = ClaimedBackoff(error_count')]_vars
    /\ [][(pc = "backoff_sleep" /\ sleepCount' = sleepCount + 1)
            => lastSleep' = ClaimedBackoff(error_count)]_vars
    /\ [][(pc = "error_sleep" /\ sleepCount' = sleepCount + 1)
            => lastSleep' = ClaimedBackoff(error_count)]_vars

\* C18 witness: with POLL_INTERVAL 80 the second failure in a row, a
\* rate-limit one, made the loop sleep 300 and not 320.
C18_Witness ==
    /\ poll_interval = 80
    /\ error_count = 2
    /\ handled = "rate_limit"
    /\ pc = "fetch"
    /\ rate_limit_backoff = 0
    /\ lastSleep = 300

\* C19 as stated: after every cycle whose fetch succeeded and that raised no
\* failure, the empty-batch cycle included, error_count is 0.
C19_ResetOnAnySuccess ==
    pc = "poll_sleep" => error_count = 0

\* C19 amended: after every cycle whose fetch returned records and whose
\* publish succeeded error_count is 0; a cycle whose fetch returned an empty
\* batch leaves error_count as it was.
C19_ResetOnPublishOnly ==
    /\ []((pc = "poll_sleep" /\ data # << >>) => error_count = 0)
    /\ [][(pc = "publish" /\ pc' = "poll_sleep") => error_count' = 0]_vars
    /\ [][(FetchStep /\ ~FetchFailed /\ data' = << >>)
            => (pc' = "poll_sleep" /\ error_count' = error_count)]_vars

\* C19 witness: a publish, then a failure, then an empty batch: the cycle ends
\* with the count still 1.
C19_Witness ==
    /\ pc = "poll_sleep"
    /\ data = << >>
    /\ fetchCount = 3
    /\ dataId = 3
    /\ publishCount = 1
    /\ error_count = 1

\* A failure raised by fetch() or by publish_batch() inside the loop.
LoopFailure ==
    \/ (FetchStep /\ FetchFailed)
    \/ (pc = "publish" /\ publishResult' \notin {"ok", "pending"})

\* C20: every failure raised by fetch or publish in the loop is caught by
\* exactly one of the two branches and counted; below the budget the loop
\* goes on with the handler's sleep, at the budget it ends in the teardown;
\* the process never ends on an uncaught failure.
C20_FailuresCaught ==
    /\ [][LoopFailure => (DeferredBranch \/ ImmediateBranch)]_vars
    /\ [][LoopFailure => ~(DeferredBranch /\ ImmediateBranch)]_vars
    /\ [][(LoopFailure /\ error_count' < max_consecutive_errors)
            => (pc' \in {"rate_limit_sleep", "error_sleep"} /\ exitReason' = "none")]_vars
    /\ [][(LoopFailure /\ error_count' >= max_consecutive_errors)
            => (pc' = "finally" /\ exitReason' = "fatal")]_vars
    /\ [](exitReason \in {"none", "fatal", "interrupt", "uncaught_interrupt"})
    /\ []((pc = "done" /\ exitReason = "fatal") => producer = "closed")

\* C20 witness: a flush timeout of publish_batch, the second failure in a
\* row, was caught by the generic branch and the loop goes on.
C20_Witness ==
    /\ pc = "error_sleep"
    /\ publishResult = "flush_timeout"
    /\ handled = "error"
    /\ error_count = 2
    /\ max_consecutive_errors = 3
    /\ exitReason = "none"

\* C21: every record of the batch one fetch call returned carries the
\* configured source name and one and the same scrape_time, with every
\* scraper.
C21_BatchStamp ==
    \A i \in 1..Len(data) :
        /\ data[i].source = source_name
        /\ data[i].scrape_time = data[1].scrape_time

\* C21 witness: the OpenSky scraper, named otherwise than by default, returned
\* five records on its second call.
C21_Witness ==
    /\ source_type = "global-opensky"
    /\ source_name = "feeder-7"
    /\ pc = "publish"
    /\ fetchCount = 2
    /\ Len(data) = 5
    /\ data[5].scrape_time = 2

\* The configuration passed construction.
Constructed == pc # "config" /\ exitReason # "config_error"
CredentialsPresent == opensky_client_id = "set" /\ opensky_client_secret = "set"

\* C22 as stated: a configuration that passed construction holds both OAuth2
\* credentials exactly when its source type is global-opensky.
C22_CredentialsIffOpenSky ==
    Constructed => (CredentialsPresent <=> source_type = "global-opensky")

\* C22 amended: a configuration that passed construction has a known source
\* type and, when that type is global-opensky, both OAuth2 credentials; an
\* environment of that type lacking one of them fails construction; for every
\* other type the credentials are not looked at, so construction passes with
\* or without them.
C22_CredentialsIfOpenSky ==
    /\ [](Constructed =>
            /\ source_type \in SourceTypes
            /\ (source_type = "global-opensky" => CredentialsPresent))
    /\ [][(pc = "config" /\ source_type = "global-opensky" /\ ~CredentialsPresent)
            => (pc' = "done" /\ exitReason' = "config_error" /\ exit_code' # 0)]_vars
    /\ [][(pc = "config" /\ source_type \in SourceTypes \ {"global-opensky"}
              /\ kafka_topic = "set" /\ source_urls # << >>)
            => (pc' = "startup_settle" /\ config' = config)]_vars

\* C22 witness: construction passed for the local type with both credentials
\* in the environment.
C22_Witness ==
    /\ pc = "connect"
    /\ source_type = "local"
    /\ opensky_client_id = "set"
    /\ opensky_client_secret = "set"

\* A get_access_token call, and one that posted a token request.
TokenCall == tokenCalls' = tokenCalls + 1
TokenRequest == tokenRequests' = tokenRequests + 1
\* No token is cached, or the cached one was acquired 25 minutes ago or more.
CacheStale == access_token = 0 \/ now >= tokenAcquiredAt + 25

\* C23: a get_access_token call posts a token request exactly when no token
\* is cached or the cached one is 25 minutes old or older; before that the
\* call returns the cached token and posts nothing; a request that fails
\* leaves token and expiry as they were, so the next call posts again.
C23_TokenCache ==
    /\ [][TokenRequest => (TokenCall /\ CacheStale)]_vars
    /\ [][(TokenCall /\ ~CacheStale)
            => (tokenRequests' = tokenRequests /\ tokenReturned' = access_token
                /\ access_token' = access_token /\ token_expiry' = token_expiry)]_vars
    /\ [][(TokenCall /\ CacheStale) => TokenRequest]_vars
    /\ [][(TokenCall /\ tokenReturned' = TokenRaised)
            => (TokenRequest /\ access_token' = access_token
                /\ token_expiry' = token_expiry)]_vars
    /\ [][(TokenCall /\ tokenReturned = TokenRaised) => TokenRequest]_vars
    /\ [][(TokenRequest /\ tokenReturned' # TokenRaised)
            => (access_token' = tokenReturned' /\ access_token' # access_token
                /\ tokenAcquiredAt' = now)]_vars

\* C23 witness: the first token was served from the cache, 25 minutes after
\* its acquisition a request failed, and the request after it brought a new
\* token.
C23_Witness ==
    /\ tokenCalls = 4
    /\ tokenRequests = 3
    /\ access_token = 3
    /\ tokenReturned = 3
    /\ tokenAcquiredAt = 25
    /\ now = 25

\* C24: rate_limit_backoff is 0 whenever a fetch or a publish is called; it
\* is set to a non-zero value only by the rate-limit handler and stays so only
\* until the top of the next iteration has slept it, or the loop is left
\* before that; the sleep at the top clears it, so no value is slept twice.
C24_PendingBackoff ==
    /\ [](rate_limit_backoff >= 0)
    /\ [](pc \in {"fetch", "publish", "poll_sleep", "error_sleep"}
            => rate_limit_backoff = 0)
    /\ [](rate_limit_backoff > 0
            => (handled = "rate_limit"
                /\ pc \in {"rate_limit_sleep", "backoff_sleep", "finally", "done"}))
    /\ [][rate_limit_backoff' > rate_limit_backoff
            => (FetchStep /\ RateLimitedFetch /\ rate_limit_backoff = 0)]_vars
    /\ [][(pc = "backoff_sleep" /\ sleepCount' = sleepCount + 1)
            => (lastSleep' = rate_limit_backoff /\ rate_limit_backoff' = 0
                /\ pc' = "fetch")]_vars
    /\ [][(pc # "backoff_sleep" /\ sleepCount' = sleepCount + 1)
            => rate_limit_backoff' = rate_limit_backoff]_vars

\* C24 witness: the backoff of the second failure in a row, 40 seconds, has
\* been slept at the top of the loop and cleared before the fetch.
C24_Witness ==
    /\ pc = "fetch"
    /\ handled = "rate_limit"
    /\ poll_interval = 10
    /\ error_count = 2
    /\ lastSleep = 40
    /\ rate_limit_backoff = 0

\* C25: a run of cycles that all end in a failure, of whatever kinds, started
\* at error count c, ends in the error-budget exit at its fetch call number
\* max_consecutive_errors - c, not sooner and not later: below that number
\* the loop goes on, and the count is c plus the calls of the run.
C25_FailureRunTerminates ==
    /\ [](failBase + failRun <= max_consecutive_errors)
    /\ [](exitReason = "fatal" => failRun = max_consecutive_errors - failBase)
    /\ []((pc \in LoopBlocking /\ pc # "publish")
            => (error_count = failBase + failRun
                /\ failRun < max_consecutive_errors - failBase))
    /\ [](pc = "publish" => error_count = failBase + failRun - 1)
    /\ [][(LoopFailure /\ failRun' = max_consecutive_errors - failBase)
            => (pc' = "finally" /\ exitReason' = "fatal")]_vars
    /\ [][(LoopFailure /\ failRun' < max_consecutive_errors - failBase)
            => (pc' \in {"rate_limit_sleep", "error_sleep"} /\ exitReason' = "none")]_vars
    /\ [][(pc \in {"rate_limit_sleep", "error_sleep", "backoff_sleep"}
              /\ exitReason' = "none")
            => (pc' \in {"backoff_sleep", "fetch"} /\ error_count' = error_count
                /\ failRun' = failRun)]_vars

\* C25 witness: from a count of 1 left by an empty batch, a failed publish
\* and then a rate-limited fetch ended the process after 3 - 1 fetch calls.
C25_Witness ==
    /\ exitReason = "fatal"
    /\ max_consecutive_errors = 3
    /\ failBase = 1
    /\ failRun = 2
    /\ publishResult = "flush_timeout"
    /\ handled = "rate_limit"
    /\ pc = "done"

\* C26: the two handlers count into one error_count: it equals the number of
\* failures of either kind since the latest successful publish, that number
\* is the exponent of every backoff stored or slept, and the budget exit is
\* taken by whichever handler brings it to max_consecutive_errors.
C26_SharedCount ==
    /\ [](error_count = failedSince)
    /\ [][LoopFailure => error_count' = failedSince + 1]_vars
    /\ [][(FetchStep /\ RateLimitedFetch)
            => rate_limit_backoff' = ClaimedBackoff(failedSince + 1)]_vars
    /\ [][(pc \in {"backoff_sleep", "error_sleep"} /\ sleepCount' = sleepCount + 1)
            => lastSleep' = ClaimedBackoff(failedSince)]_vars
    /\ [][(LoopFailure /\ failedSince + 1 >= max_consecutive_errors)
            => (pc' = "finally" /\ exitReason' = "fatal")]_vars
    /\ [][(LoopFailure /\ failedSince + 1 < max_consecutive_errors)
            => (pc' \in {"rate_limit_sleep", "error_sleep"})]_vars

\* C26 witness: a failed publish and then a rate-limited fetch: the stored
\* backoff has the exponent 2.
C26_Witness ==
    /\ pc = "rate_limit_sleep"
    /\ handled = "rate_limit"
    /\ publishResult = "flush_timeout"
    /\ fetchCount = 2
    /\ poll_interval = 10
    /\ error_count = 2
    /\ rate_limit_backoff = 40

====
